---- MODULE Spec2Model ----
(***************************************************************************)
(* A model of piday2023.py and asciipi.py: the three pi formulas on        *)
(* decimal arithmetic rounded to the working precision, the integer string *)
(* conversion ceiling, the scoped decimal context, the raster renderer and *)
(* the command-line entry point.                                           *)
(***************************************************************************)
EXTENDS Integers, Sequences, FiniteSets, TLC

(***************************************************************************)
(* Unbounded naturals (a Python int, the coefficient of a Decimal) are     *)
(* sequences of decimal digits, most significant first, as the digit       *)
(* string Decimal keeps.  Arithmetic packs three digits to a limb, least   *)
(* significant limb first, so that every intermediate fits a machine word. *)
(***************************************************************************)
Max(i, j) == IF i >= j THEN i ELSE j

Min(i, j) == IF i <= j THEN i ELSE j

\* the sequence a function on 1..n denotes, evaluated once
Tup(f) == f \o <<>>

\* e, with v evaluated before it: an argument is otherwise evaluated where it
\* is first used, on top of every call that led there
After(v, e) == IF v = v THEN e ELSE e

\* the highest index in lo..hi at which s is not zero, or 0 if there is none
RECURSIVE HighestNonZero(_, _, _)
HighestNonZero(s, lo, hi) ==
    IF lo > hi THEN 0
    ELSE IF s[hi] # 0 THEN hi
    ELSE IF lo = hi THEN 0
    ELSE LET mid == (lo + hi - 1) \div 2
             h == HighestNonZero(s, mid + 1, hi - 1)
         IN  IF h # 0 THEN h ELSE HighestNonZero(s, lo, mid)

\* the lowest index in lo..hi at which s is not zero, or 0 if there is none
RECURSIVE LowestNonZero(_, _, _)
LowestNonZero(s, lo, hi) ==
    IF lo > hi THEN 0
    ELSE IF s[lo] # 0 THEN lo
    ELSE IF lo = hi THEN 0
    ELSE LET mid == (lo + 1 + hi) \div 2
             l == LowestNonZero(s, lo + 1, mid - 1)
         IN  IF l # 0 THEN l ELSE LowestNonZero(s, mid, hi)

\* a without its leading zeros
NatNorm(a) ==
    LET i == LowestNonZero(a, 1, Len(a))
    IN  IF i = 0 THEN <<0>>
        ELSE IF i = 1 THEN a ELSE SubSeq(a, i, Len(a))

NatIsZero(a) == a = <<0>>

RECURSIVE NatFromIntGo(_, _)
NatFromIntGo(n, acc) ==
    IF n < 10 THEN <<n>> \o acc
    ELSE NatFromIntGo(n \div 10, <<n % 10>> \o acc)

NatFromInt(n) == NatFromIntGo(n, <<>>)

Zeros(k) == Tup([i \in 1..k |-> 0])

\* a * 10^k
NatShift(a, k) == IF NatIsZero(a) \/ k <= 0 THEN a ELSE a \o Zeros(k)

\* 10^k
NatPow10(k) == <<1>> \o Zeros(k)

DigitR(a, j) == IF j <= Len(a) THEN a[Len(a) + 1 - j] ELSE 0

\* the number of zeros a ends with
TrailingZeros(a) == Len(a) - HighestNonZero(a, 1, Len(a))

LimbAt(x, i) == IF 1 <= i /\ i <= Len(x) THEN x[i] ELSE 0

ToLimbs(a) ==
    Tup([i \in 1..((Len(a) + 2) \div 3) |->
            DigitR(a, 3 * i - 2) + 10 * DigitR(a, 3 * i - 1) + 100 * DigitR(a, 3 * i)])

LimbDigit(limb, r) ==
    IF r = 0 THEN limb % 10
    ELSE IF r = 1 THEN (limb \div 10) % 10
    ELSE limb \div 100

FromLimbs(x) ==
    LET n == 3 * Len(x)
    IN  NatNorm(Tup([i \in 1..n |->
            LimbDigit(x[((n - i) \div 3) + 1], (n - i) % 3)]))

\* x without its high zero limbs
LimbTrim(x) ==
    LET t == HighestNonZero(x, 1, Len(x))
    IN  IF t = Len(x) THEN x ELSE SubSeq(x, 1, t)

\* the sign of x[i] - y[i] at the highest i in lo..hi where they differ
RECURSIVE LimbCmpGo(_, _, _, _)
LimbCmpGo(x, y, lo, hi) ==
    IF x[hi] < y[hi] THEN -1
    ELSE IF x[hi] > y[hi] THEN 1
    ELSE IF lo = hi THEN 0
    ELSE LET mid == (lo + hi - 1) \div 2
             h == IF mid + 1 <= hi - 1 THEN LimbCmpGo(x, y, mid + 1, hi - 1) ELSE 0
         IN  IF h # 0 THEN h ELSE LimbCmpGo(x, y, lo, mid)

\* trimmed x against trimmed y
LimbCmp(x, y) ==
    IF Len(x) < Len(y) THEN -1
    ELSE IF Len(x) > Len(y) THEN 1
    ELSE IF x = y THEN 0
    ELSE LimbCmpGo(x, y, 1, Len(x))

\* limb sums s, each at most 2 * 999, with their carries propagated: limb i
\* receives a carry when the nearest lower limb that is not 999 overflows
LimbResolve(s) ==
    LET m == Tup([i \in 1..Len(s) |-> s[i] - 999])
        carry(i) == LET j == HighestNonZero(m, 1, i - 1)
                    IN  IF j # 0 /\ s[j] >= 1000 THEN 1 ELSE 0
    IN  LimbTrim(Tup([i \in 1..(Len(s) + 1) |-> (LimbAt(s, i) + carry(i)) % 1000]))

LimbAdd(x, y) ==
    LimbResolve(Tup([i \in 1..Max(Len(x), Len(y)) |-> LimbAt(x, i) + LimbAt(y, i)]))

\* x - y for x >= y: limb i lends when the nearest lower limb difference
\* that is not zero is negative
LimbSub(x, y) ==
    LET d == Tup([i \in 1..Len(x) |-> x[i] - LimbAt(y, i)])
        borrow(i) == LET j == HighestNonZero(d, 1, i - 1)
                     IN  IF j # 0 /\ d[j] < 0 THEN 1 ELSE 0
    IN  LimbTrim(Tup([i \in 1..Len(x) |-> (d[i] - borrow(i) + 1000) % 1000]))

\* x * m for 0 <= m < 1000
LimbMulSmall(x, m) ==
    LET t == Tup([i \in 1..Len(x) |-> x[i] * m])
    IN  LimbResolve(Tup([i \in 1..(Len(x) + 1) |->
            (LimbAt(t, i) % 1000) + (LimbAt(t, i - 1) \div 1000)]))

\* the sum over i in lo..hi of x[i] * y[k + 1 - i]
RECURSIVE ConvGo(_, _, _, _, _)
ConvGo(x, y, k, lo, hi) ==
    IF lo > hi THEN 0
    ELSE IF lo = hi THEN x[lo] * y[k + 1 - lo]
    ELSE LET mid == (lo + hi) \div 2
         IN  ConvGo(x, y, k, lo, mid) + ConvGo(x, y, k, mid + 1, hi)

LimbMul(x, y) ==
    LET n == Len(x) + Len(y)
        c == Tup([k \in 1..n |->
                ConvGo(x, y, k, Max(1, k + 1 - Len(y)), Min(Len(x), k))])
        s == Tup([k \in 1..n |->
                (c[k] % 1000) + ((LimbAt(c, k - 1) \div 1000) % 1000)
                + (LimbAt(c, k - 2) \div 1000000)])
    IN  LimbResolve(Tup([k \in 1..n |-> (s[k] % 1000) + (LimbAt(s, k - 1) \div 1000)]))

\* the largest d with y * d <= x, for trimmed y # 0 and x < y * 1000: the
\* quotient of the three leading limbs of x by the two leading limbs of y
\* is d, d + 1 or d + 2
QuotLimb(x, y) ==
    LET n == Len(y)
        fits(d) == LimbCmp(LimbMulSmall(y, d), x) <= 0
        guess == IF n <= 2
                 THEN (LimbAt(x, 3) * 1000000 + LimbAt(x, 2) * 1000 + LimbAt(x, 1))
                      \div (LimbAt(y, 2) * 1000 + y[1])
                 ELSE Min(999, (LimbAt(x, n + 1) * 1000000 + LimbAt(x, n) * 1000
                                + LimbAt(x, n - 1))
                               \div (y[n] * 1000 + y[n - 1]))
    IN  IF LimbCmp(y, x) > 0 THEN 0
        ELSE IF n <= 2 \/ fits(guess) THEN guess
        ELSE IF fits(guess - 1) THEN guess - 1
        ELSE guess - 2

\* long division by y of the limbs lo..hi of x, highest first, entered with
\* the remainder rem of the limbs above: quotient limbs and remainder
RECURSIVE LimbDivGo(_, _, _, _, _)
LimbDivGo(x, y, lo, hi, rem) ==
    IF lo > hi THEN [q |-> <<>>, r |-> rem]
    ELSE IF lo = hi
    THEN LET cur == LimbTrim(<<x[lo]>> \o rem)
             step(d) == [q |-> <<d>>,
                         r |-> IF d = 0 THEN cur ELSE LimbSub(cur, LimbMulSmall(y, d))]
         IN  step(QuotLimb(cur, y))
    ELSE LET mid == (lo + hi) \div 2
             high == LimbDivGo(x, y, mid + 1, hi, rem)
             low == LimbDivGo(x, y, lo, mid, high.r)
         IN  After(high, [q |-> low.q \o high.q, r |-> low.r])

\* x \div y and x % y, for trimmed y # 0
LimbDivMod(x, y) ==
    LET trimmed(dm) == [q |-> LimbTrim(dm.q), r |-> dm.r]
    IN  trimmed(LimbDivGo(x, y, 1, Len(x), <<>>))

\* x \div 2
LimbHalf(x) ==
    LET t == LimbMulSmall(x, 500)
    IN  IF Len(t) <= 1 THEN <<>> ELSE SubSeq(t, 2, Len(t))

\* Newton's iteration for floor(sqrt(c)) from an n at or above it
RECURSIVE LimbSqrtGo(_, _)
LimbSqrtGo(c, n) ==
    LET better(q) == IF LimbCmp(n, q) <= 0 THEN n
                     ELSE LimbSqrtGo(c, LimbHalf(LimbAdd(n, q)))
    IN  better(LimbDivMod(c, n).q)

NatCmp(a, b) ==
    IF Len(a) < Len(b) THEN -1
    ELSE IF Len(a) > Len(b) THEN 1
    ELSE IF a = b THEN 0
    ELSE LimbCmp(LimbTrim(ToLimbs(a)), LimbTrim(ToLimbs(b)))

NatAdd(a, b) == FromLimbs(LimbAdd(ToLimbs(a), ToLimbs(b)))

\* a - b, for a >= b
NatSub(a, b) == FromLimbs(LimbSub(ToLimbs(a), ToLimbs(b)))

NatMul(a, b) == FromLimbs(LimbMul(ToLimbs(a), ToLimbs(b)))

\* divmod(a, b), for b > 0
NatDivMod(a, b) ==
    LET digits(dm) == [q |-> FromLimbs(dm.q), r |-> FromLimbs(dm.r)]
    IN  digits(LimbDivMod(LimbTrim(ToLimbs(a)), LimbTrim(ToLimbs(b))))

\* floor(sqrt(c)) for c > 0, found from 10^prec >= sqrt(c), and c less its
\* square
NatIsqrt(c, prec) ==
    LET x == LimbTrim(ToLimbs(c))
        root(n) == [q |-> FromLimbs(n), r |-> FromLimbs(LimbSub(x, LimbMul(n, n)))]
    IN  root(LimbSqrtGo(x, LimbTrim(ToLimbs(NatPow10(prec)))))

\* m^k for 0 <= m < 1000
RECURSIVE LimbPowSmall(_, _)
LimbPowSmall(m, k) ==
    IF k = 0 THEN <<1>>
    ELSE LET odd(sq) == IF k % 2 = 1 THEN LimbMulSmall(sq, m) ELSE sq
             square(h) == odd(LimbMul(h, h))
         IN  square(LimbPowSmall(m, k \div 2))

NatPowSmall(m, k) == FromLimbs(LimbPowSmall(m, k))

(***************************************************************************)
(* decimal.Decimal: a sign, a coefficient and an exponent; every operation *)
(* computes the exact result and rounds it half-even to the context's      *)
(* precision, as the General Decimal Arithmetic the library implements.    *)
(***************************************************************************)
Dec(s, c, e) == [sign |-> s, int |-> c, exp |-> e]

DecFromInt(n) == Dec(0, NatFromInt(n), 0)

DecFromNat(c) == Dec(0, c, 0)

DecIsZero(d) == NatIsZero(d.int)

DecNeg(d) == Dec(1 - d.sign, d.int, d.exp)

AllZeroFrom(c, i) == \A j \in i..Len(c) : c[j] = 0

\* whether dropping all but the first `digits` digits of c rounds up
RoundsUpHalfEven(c, digits) ==
    LET first == c[digits + 1]
        exact_half == first = 5 /\ AllZeroFrom(c, digits + 2)
    IN  IF exact_half /\ (digits = 0 \/ c[digits] % 2 = 0) THEN FALSE
        ELSE first >= 5

\* round to the context's precision
DecFix(prec, d) ==
    IF DecIsZero(d) THEN d
    ELSE LET exp_min == Len(d.int) + d.exp - prec
             kept == SubSeq(d.int, 1, prec)
             fit(coeff) ==
                 IF Len(coeff) > prec
                 THEN Dec(d.sign, SubSeq(coeff, 1, Len(coeff) - 1), exp_min + 1)
                 ELSE Dec(d.sign, coeff, exp_min)
         IN  IF d.exp < exp_min
             THEN fit(IF RoundsUpHalfEven(d.int, prec)
                      THEN NatAdd(kept, <<1>>) ELSE kept)
             ELSE d

DecMul(prec, a, b) ==
    After(a, After(b,
    DecFix(prec, Dec((a.sign + b.sign) % 2,
                     IF DecIsZero(a) \/ DecIsZero(b) THEN <<0>>
                     ELSE NatMul(a.int, b.int),
                     a.exp + b.exp))))

\* the operand with its exponent lowered to exp (exp <= d.exp)
DecRescale(d, exp) ==
    IF DecIsZero(d) THEN Dec(d.sign, <<0>>, exp)
    ELSE Dec(d.sign, NatShift(d.int, d.exp - exp), exp)

\* both operands brought to one exponent; an operand too small to reach the
\* rounded digit is replaced by a 1 just below the other's last kept digit
DecNormalize(a, b, prec) ==
    LET aligned(tmp, other) ==
            LET exp == tmp.exp + Min(-1, Len(tmp.int) - prec - 2)
                other2 == IF Len(other.int) + other.exp - 1 < exp
                          THEN Dec(other.sign, <<1>>, exp) ELSE other
            IN  [tmp |-> Dec(tmp.sign, NatShift(tmp.int, tmp.exp - other2.exp),
                             other2.exp),
                 other |-> other2]
        swapped(pair) == <<pair.other, pair.tmp>>
        straight(pair) == <<pair.tmp, pair.other>>
    IN  IF a.exp < b.exp THEN swapped(aligned(b, a)) ELSE straight(aligned(a, b))

DecAdd(prec, a, b) ==
    After(a, After(b,
    LET exp == Min(a.exp, b.exp)
        sum(op1, op2) ==
            LET differ(c) ==
                    IF c = 0 THEN Dec(0, <<0>>, exp)
                    ELSE IF c < 0
                    THEN Dec(op2.sign, NatSub(op2.int, op1.int), op1.exp)
                    ELSE Dec(op1.sign, NatSub(op1.int, op2.int), op1.exp)
            IN  IF op1.sign # op2.sign THEN differ(NatCmp(op1.int, op2.int))
                ELSE Dec(op1.sign, NatAdd(op1.int, op2.int), op1.exp)
        sum_of(ops) == sum(ops[1], ops[2])
    IN  DecFix(prec,
            IF DecIsZero(a) /\ DecIsZero(b) THEN Dec(Min(a.sign, b.sign), <<0>>, exp)
            ELSE IF DecIsZero(a) THEN DecRescale(b, Max(exp, b.exp - prec - 1))
            ELSE IF DecIsZero(b) THEN DecRescale(a, Max(exp, a.exp - prec - 1))
            ELSE sum_of(DecNormalize(a, b, prec)))))

DecSub(prec, a, b) == DecAdd(prec, a, DecNeg(b))

\* a / b for b # 0
DecDiv(prec, a, b) ==
    After(a, After(b,
    LET sign == (a.sign + b.sign) % 2
        ideal_exp == a.exp - b.exp
        shift == Len(b.int) - Len(a.int) + prec + 1
        exp == ideal_exp - shift
        quotient(dm) ==
            IF ~NatIsZero(dm.r)
            THEN Dec(sign,
                     IF DigitR(dm.q, 1) % 5 = 0 THEN NatAdd(dm.q, <<1>>) ELSE dm.q,
                     exp)
            ELSE LET k == IF exp < ideal_exp
                          THEN Min(ideal_exp - exp, TrailingZeros(dm.q))
                          ELSE 0
                 IN  Dec(sign, NatNorm(SubSeq(dm.q, 1, Len(dm.q) - k)), exp + k)
    IN  DecFix(prec,
            IF DecIsZero(a) THEN Dec(sign, <<0>>, ideal_exp)
            ELSE quotient(NatDivMod(NatShift(a.int, shift), NatShift(b.int, -shift))))))

\* the square root of d >= 0
DecSqrt(prec0, d) ==
    After(d,
    LET prec == prec0 + 1
        odd == d.exp % 2 = 1
        c0 == IF odd THEN NatShift(d.int, 1) ELSE d.int
        l == IF odd THEN (Len(d.int) \div 2) + 1 ELSE (Len(d.int) + 1) \div 2
        shift == prec - l
        e == (d.exp \div 2) - shift
        rooted(dm) ==
            LET result(rt) ==
                    IF NatIsZero(dm.r) /\ NatIsZero(rt.r)
                    THEN Dec(0,
                             IF shift >= 0
                             THEN NatNorm(SubSeq(rt.q, 1, Len(rt.q) - shift))
                             ELSE NatShift(rt.q, -shift),
                             e + shift)
                    ELSE Dec(0,
                             IF DigitR(rt.q, 1) % 5 = 0 THEN NatAdd(rt.q, <<1>>)
                             ELSE rt.q,
                             e)
            IN  result(NatIsqrt(dm.q, prec))
    IN  DecFix(prec0,
            IF DecIsZero(d) THEN Dec(d.sign, <<0>>, d.exp \div 2)
            ELSE rooted(IF shift >= 0
                        THEN [q |-> NatShift(c0, 2 * shift), r |-> <<0>>]
                        ELSE NatDivMod(c0, NatPow10(2 * (-shift))))))

\* -1, 0 or 1 as a < b, a = b or a > b, compared as numbers
DecCmp(a, b) ==
    After(a, After(b,
    IF DecIsZero(a) /\ DecIsZero(b) THEN 0
    ELSE IF DecIsZero(a) THEN (IF b.sign = 0 THEN -1 ELSE 1)
    ELSE IF DecIsZero(b) THEN (IF a.sign = 0 THEN 1 ELSE -1)
    ELSE IF a.sign # b.sign THEN (IF a.sign = 0 THEN 1 ELSE -1)
    ELSE (IF a.sign = 0 THEN 1 ELSE -1)
         * NatCmp(NatShift(a.int, a.exp - Min(a.exp, b.exp)),
                  NatShift(b.int, b.exp - Min(a.exp, b.exp)))))

\* int(d) for d >= 0: the integer part
DecToInt(d) ==
    IF d.exp >= 0 THEN NatShift(d.int, d.exp)
    ELSE IF -d.exp >= Len(d.int) THEN <<0>>
    ELSE SubSeq(d.int, 1, Len(d.int) + d.exp)

(***************************************************************************)
(* Strings are sequences of one-character strings.                         *)
(***************************************************************************)
DigitChars == <<"0", "1", "2", "3", "4", "5", "6", "7", "8", "9">>

\* str(n) for a Python int n >= 0
IntStr(n) == [i \in 1..Len(n) |-> DigitChars[n[i] + 1]]

\* str(d): plain notation when the exponent allows, else scientific
DecStr(d) ==
    LET digits == IntStr(d.int)
        leftdigits == d.exp + Len(d.int)
        plain == d.exp <= 0 /\ leftdigits > -6
        dotplace == IF plain THEN leftdigits ELSE 1
        intpart == IF dotplace <= 0 THEN <<"0">>
                   ELSE IF dotplace >= Len(digits)
                   THEN digits \o [i \in 1..(dotplace - Len(digits)) |-> "0"]
                   ELSE SubSeq(digits, 1, dotplace)
        fracpart == IF dotplace <= 0
                    THEN <<".">> \o [i \in 1..(-dotplace) |-> "0"] \o digits
                    ELSE IF dotplace >= Len(digits) THEN <<>>
                    ELSE <<".">> \o SubSeq(digits, dotplace + 1, Len(digits))
        e == leftdigits - dotplace
        exppart == IF e = 0 THEN <<>>
                   ELSE <<"E", IF e < 0 THEN "-" ELSE "+">>
                        \o IntStr(NatFromInt(IF e < 0 THEN -e ELSE e))
    IN  (IF d.sign = 1 THEN <<"-">> ELSE <<>>) \o intpart \o fracpart \o exppart

\* s[:n]
SliceTo(s, n) ==
    IF n >= 0 THEN SubSeq(s, 1, Min(n, Len(s)))
    ELSE SubSeq(s, 1, Max(0, Len(s) + n))

\* s[1:]
SliceFrom1(s) == IF Len(s) = 0 THEN <<>> ELSE Tail(s)

(***************************************************************************)
(* The interpreter's process: the ceiling on int <-> str conversions kept  *)
(* by sys, piday2023's module-level record of the last precision prepared  *)
(* for, the precision of the current decimal context, and the call in      *)
(* progress.  Calls are made one after another from the idle interpreter.  *)
(***************************************************************************)
VARIABLES
    max_str_digits,     \* sys.get_int_max_str_digits()
    _last_precision,    \* piday2023._last_precision
    ctx_prec,           \* decimal.getcontext().prec
    ctx_stack,          \* the precisions the open localcontext() blocks restore
    pc,                 \* the function whose loop runs next, "done" or "idle"
    entry,              \* the call made from the idle interpreter
    caller,             \* the function that called the formula
    formula,            \* the formula called
    precision,          \* its argument
    loc,                \* its local variables
    outcome,            \* "ok", or the exception the call raised
    raised,             \* the source line that raised it
    result,             \* the value the call returned
    art,                \* the local variables of pi_ascii_art
    cli,                \* the local variables and streams of main
    at_entry,           \* the ceiling and the precision when the call was made
    kept,               \* one earlier call and its outcome
    todo,               \* the calls test_formulas has yet to make
    results             \* the values it has got

sysv == <<max_str_digits, _last_precision>>
ctxv == <<ctx_prec, ctx_stack>>
callv == <<caller, formula, precision>>
outv == <<outcome, raised, result>>
testv == <<kept, todo, results>>
vars == <<sysv, ctxv, pc, entry, callv, loc, outv, art, cli, at_entry, testv>>

\* None, where the other values are integers
None == 0 - 1

\* None, where the other values are Decimals
NoneDec == [sign |-> 2, int |-> <<>>, exp |-> 0]

DEFAULT_FORMULA_NAME == "agm"

\* DEFAULT_SAFETY_FACTOR, in ten-thousandths
DEFAULT_SAFETY_FACTOR == 20001

\* sys.int_info.default_max_str_digits
DEFAULT_MAX_STR_DIGITS == 4300

\* sys.int_info.str_digits_check_threshold
STR_DIGITS_CHECK_THRESHOLD == 640

\* the precision of the default decimal context
DEFAULT_CONTEXT_PREC == 28

\* whether sys.set_int_max_str_digits(maxdigits) accepts maxdigits: 0 lifts
\* the ceiling, and a ceiling below the threshold is a ValueError
set_int_max_str_digits_ok(maxdigits) ==
    maxdigits = 0 \/ maxdigits >= STR_DIGITS_CHECK_THRESHOLD

\* whether str() of an int of ndigits digits is within the ceiling
int_to_str_ok(ndigits, ceiling) == ceiling = 0 \/ ndigits <= ceiling

\* int(precision * safety_factor): the product truncated toward zero
\* (precisions below 10000, where the float product truncates as the exact)
conversion_precision_unscaled(p) == p

conversion_precision(p) ==
    IF p >= 0 THEN (p * DEFAULT_SAFETY_FACTOR) \div 10000
    ELSE 0 - (((0 - p) * DEFAULT_SAFETY_FACTOR) \div 10000)

\* _prepare_for_conversion(p): the ceiling and the record it leaves; a
\* rejected ceiling is suppressed with the record's update
_prepare_for_conversion(p, ceiling, last) ==
    IF (last = None \/ last = 0 \/ p > last)
       /\ set_int_max_str_digits_ok(conversion_precision(p))
    THEN [max_str_digits |-> conversion_precision(p), _last_precision |-> p]
    ELSE [max_str_digits |-> ceiling, _last_precision |-> last]

\* get_formula: the function a formula name stands for, "" if none does
get_formula(formula_name) ==
    LET name == IF formula_name = "None" THEN DEFAULT_FORMULA_NAME ELSE formula_name
    IN  IF name \in {"compute_pi_bbp", "compute_pi_machin", "compute_pi_agm"} THEN name
        ELSE IF name \in {"bbp", "machin", "agm"}
        THEN IF name = "bbp" THEN "compute_pi_bbp"
             ELSE IF name = "machin" THEN "compute_pi_machin"
             ELSE "compute_pi_agm"
        ELSE ""

\* precision_padding of each formula; asciipi.compute_pi adds 2
precision_padding(name) ==
    IF name = "compute_pi_agm" THEN 3
    ELSE IF name = "asciipi.compute_pi" THEN 2
    ELSE 4

\* the precision a localcontext() block restores when it is left
restored_unchanged(saved, current) == current

restored(saved, current) == saved

NoArt ==
    [renderer |-> "none", width |-> 0, pixels |-> <<>>, inverted |-> FALSE,
     num_digits |-> 0, pi_str |-> <<>>, pi_index |-> 0, num_chars |-> 0,
     pos |-> 0, line |-> <<>>, lines |-> <<>>, text |-> <<>>, reads |-> <<>>]

NoCli == [opts |-> <<>>, exit_code |-> None, returned |-> None, stderr |-> <<>>, stdout |-> <<>>]

\* the call made from the idle interpreter ends, with a value or with an
\* exception no frame below main handles; main prints the value, or has
\* print_exception write the exception to the error stream, and returns 0
Finish(e, c, exc, line, value) ==
    /\ outcome' = exc
    /\ raised' = line
    /\ result' = value
    /\ pc' = "done"
    /\ cli' = IF e # "main" THEN c
              ELSE [c EXCEPT !.returned = 0,
                               !.stdout = IF exc = "ok" THEN Append(@, value) ELSE @,
                               !.stderr = IF exc = "ok" THEN @ ELSE Append(@, exc)]

\* the local variables of a loop not yet reached, set as its first pass starts
NotEntered == [entered |-> FALSE]

entered(l) == "entered" \notin DOMAIN l

\* the local variables of a formula as its loop is first reached
bbp_locals == [pi |-> DecFromInt(0), pi_int |-> <<0>>, k |-> 0, broke |-> FALSE]

\* decimal_atan2(Decimal(x)), which takes y / x to be 1 / x
atan2_locals(prec, x) ==
    [xp |-> DecFromInt(x), yp |-> DecFromInt(1),
     x2 |-> DecMul(prec, DecFromInt(x), DecFromInt(x)),
     y2 |-> DecMul(prec, DecFromInt(1), DecFromInt(1)),
     pos_total |-> DecFromInt(0), neg_total |-> DecFromInt(0), sign |-> 1, n |-> 1,
     old_total |-> NoneDec, total |-> DecFromInt(0), term |-> DecFromInt(1)]

machin_locals == [x |-> 5, atan5 |-> NoneDec, atan |-> NotEntered]

agm_locals(prec, p) ==
    [epsilon |-> DecDiv(prec, Dec(0, <<1>>, 0 - p), DecFromInt(2)),
     a |-> DecFromInt(1), n |-> DecFromInt(1),
     g |-> DecDiv(prec, DecFromInt(1), DecSqrt(prec, DecFromInt(2))),
     z |-> Dec(0, <<2, 5>>, 0 - 2), half |-> Dec(0, <<5>>, 0 - 1),
     old_pi |-> NoneDec, pi |-> DecFromInt(0), i |-> 0, zero_z |-> FALSE]

locals(name) ==
    IF name = "compute_pi_machin" THEN machin_locals
    ELSE IF name = "compute_pi_agm" THEN NotEntered
    ELSE bbp_locals

\* the loop a formula reaches first
first_loop(name) == IF name = "compute_pi_machin" THEN "decimal_atan2" ELSE name

\* formula(precision) is called from `from` in the call `e`, main's locals
\* being c and the ceiling `ceiling`: the ceiling is prepared, the localcontext() block is entered and
\* its precision set, which is a ValueError below 1, and the locals are set up
Call(e, c, from, name, p, ceiling) ==
    LET prep == IF name = "asciipi.compute_pi"
                THEN [max_str_digits |-> ceiling, _last_precision |-> _last_precision]
                ELSE _prepare_for_conversion(p, ceiling, _last_precision)
        prec == p + precision_padding(name)
    IN  /\ max_str_digits' = prep.max_str_digits
        /\ _last_precision' = prep._last_precision
        /\ caller' = from
        /\ formula' = name
        /\ precision' = p
        /\ IF prec < 1
           THEN /\ Finish(e, c, "ValueError",
                          IF name = "asciipi.compute_pi" THEN 12 ELSE 65, <<>>)
                /\ loc' = <<>>
                /\ UNCHANGED ctxv
           ELSE /\ ctx_stack' = <<ctx_prec>> \o ctx_stack
                /\ ctx_prec' = prec
                /\ loc' = locals(name)
                /\ pc' = first_loop(name)
                /\ outcome' = "none"
                /\ raised' = 0
                /\ result' = <<>>
                /\ cli' = c

\* the formula leaves its localcontext() block
Leave ==
    /\ ctx_prec' = restored(Head(ctx_stack), ctx_prec)
    /\ ctx_stack' = Tail(ctx_stack)

\* the formula returns value: to pi_ascii_art, which goes on to walk the
\* pixels, or to a caller that returns it in turn
Return(value) ==
    /\ Leave
    /\ IF caller \in {"pi_ascii_art", "asciipi.pi_ascii_art"}
       THEN /\ art' = [art EXCEPT !.pi_str = value]
            /\ pc' = caller
            /\ UNCHANGED <<outv, cli>>
       ELSE /\ Finish(entry, cli, "ok", 0, value)
            /\ UNCHANGED art
    /\ UNCHANGED <<sysv, entry, callv, loc, at_entry, testv>>

\* the formula raises exc at line
Raise(exc, line) ==
    /\ Leave
    /\ Finish(entry, cli, exc, line, <<>>)
    /\ UNCHANGED <<sysv, entry, callv, loc, art, at_entry, testv>>

(***************************************************************************)
(* compute_pi_bbp, and asciipi.compute_pi, which is the same sum with two  *)
(* digits of padding, as many terms as digits and its result left whole.   *)
(***************************************************************************)
bbp_term(prec, k) ==
    DecSub(prec,
        DecSub(prec,
            DecSub(prec,
                DecDiv(prec, DecFromInt(4), DecFromInt(8 * k + 1)),
                DecDiv(prec, DecFromInt(2), DecFromInt(8 * k + 4))),
            DecDiv(prec, DecFromInt(1), DecFromInt(8 * k + 5))),
        DecDiv(prec, DecFromInt(1), DecFromInt(8 * k + 6)))

\* one pass of the loop over k, with precision_scale = 10^scale
bbp_pass(prec, scale, l) ==
    LET next(pi, pi_int) ==
            [pi |-> pi, pi_int |-> pi_int, k |-> l.k + 1, broke |-> pi_int = l.pi_int]
        scaled(pi) == next(pi, DecToInt(DecMul(prec, pi, DecFromNat(NatPow10(scale)))))
    IN  scaled(DecAdd(prec, l.pi,
                   DecDiv(prec, bbp_term(prec, l.k), DecFromNat(NatPowSmall(16, l.k)))))

\* f'{pi_str[0]}.{pi_str[1:]}'
with_point(pi_str) == <<pi_str[1], ".">> \o SliceFrom1(pi_str)

bbp_keep_guard_digit(p) == p + 3

\* the characters compute_pi_bbp keeps
bbp_keep(p) == p + 2

compute_pi_bbp_iterate ==
    /\ pc = "compute_pi_bbp"
    /\ ~loc.broke
    /\ loc.k < precision + 4
    /\ loc' = bbp_pass(ctx_prec, precision + 4, loc)
    /\ UNCHANGED <<sysv, ctxv, pc, entry, callv, outv, art, cli, at_entry, testv>>

compute_pi_bbp_return ==
    /\ pc = "compute_pi_bbp"
    /\ loc.broke \/ loc.k >= precision + 4
    /\ IF int_to_str_ok(Len(loc.pi_int), max_str_digits)
       THEN Return(SliceTo(with_point(IntStr(loc.pi_int)), bbp_keep(precision)))
       ELSE Raise("ValueError", 84)

asciipi_compute_pi_iterate ==
    /\ pc = "asciipi.compute_pi"
    /\ ~loc.broke
    /\ loc.k < precision
    /\ loc' = bbp_pass(ctx_prec, precision, loc)
    /\ UNCHANGED <<sysv, ctxv, pc, entry, callv, outv, art, cli, at_entry, testv>>

asciipi_compute_pi_return ==
    /\ pc = "asciipi.compute_pi"
    /\ loc.broke \/ loc.k >= precision
    /\ IF int_to_str_ok(Len(loc.pi_int), max_str_digits)
       THEN Return(with_point(IntStr(loc.pi_int)))
       ELSE Raise("ValueError", 29)

(***************************************************************************)
(* compute_pi_machin: 4 * (4 * atan(1/5) - atan(1/239)), each arctangent   *)
(* summed by decimal_atan2 until a term leaves the total as it was.        *)
(***************************************************************************)
\* old_total != total
atan2_unsettled(l) ==
    IF ~entered(l) THEN TRUE
    ELSE IF l.old_total = NoneDec THEN TRUE
    ELSE DecCmp(l.old_total, l.total) # 0

\* one pass of decimal_atan2's loop
atan2_pass(prec, l) ==
    LET totals(pos_total, neg_total, term) ==
            [xp |-> DecMul(prec, l.xp, l.x2), yp |-> DecMul(prec, l.yp, l.y2),
             x2 |-> l.x2, y2 |-> l.y2,
             pos_total |-> pos_total, neg_total |-> neg_total,
             sign |-> 0 - l.sign, n |-> l.n + 2,
             old_total |-> l.total, total |-> DecSub(prec, pos_total, neg_total),
             term |-> term]
        added(term, sum) ==
            IF l.sign > 0 THEN totals(sum, l.neg_total, term)
            ELSE totals(l.pos_total, sum, term)
        shared(term) ==
            added(term, DecAdd(prec, IF l.sign > 0 THEN l.pos_total ELSE l.neg_total,
                               DecDiv(prec, term, DecFromInt(l.n))))
    IN  shared(DecDiv(prec, l.yp, l.xp))

decimal_atan2_iterate ==
    /\ pc = "decimal_atan2"
    /\ atan2_unsettled(loc.atan)
    /\ loc' = [loc EXCEPT !.atan = atan2_pass(ctx_prec,
                                       IF entered(loc.atan) THEN loc.atan
                                       ELSE atan2_locals(ctx_prec, loc.x))]
    /\ UNCHANGED <<sysv, ctxv, pc, entry, callv, outv, art, cli, at_entry, testv>>

\* decimal_atan2 returns its total: the arctangent of 1/239 is summed next,
\* or the two are ready for compute_pi_machin
decimal_atan2_return ==
    /\ pc = "decimal_atan2"
    /\ ~atan2_unsettled(loc.atan)
    /\ IF loc.x = 5
       THEN /\ loc' = [x |-> 239, atan5 |-> loc.atan.total, atan |-> NotEntered]
            /\ UNCHANGED pc
       ELSE /\ loc' = loc
            /\ pc' = "compute_pi_machin"
    /\ UNCHANGED <<sysv, ctxv, entry, callv, outv, art, cli, at_entry, testv>>

\* the power of ten compute_pi_machin scales pi by
machin_scale(p) == p + 2

\* the digits compute_pi_machin keeps of the scaled pi
machin_keep(p) == p + 1

\* the rest of compute_pi_machin: 10**(precision + 2) is a float below 10**0,
\* which a Decimal does not multiply
compute_pi_machin_return ==
    /\ pc = "compute_pi_machin"
    /\ LET digits(pi_int, pi_str) ==
               IF ~int_to_str_ok(Len(pi_int), max_str_digits) THEN Raise("ValueError", 101)
               ELSE IF Len(pi_str) # precision + 1 THEN Raise("AssertionError", 102)
               ELSE IF Len(pi_str) = 0 THEN Raise("IndexError", 103)
               ELSE Return(with_point(pi_str))
           sliced(pi_int) ==
               digits(pi_int, SliceTo(IntStr(pi_int), machin_keep(precision)))
           scaled(pi) ==
               sliced(DecToInt(DecMul(ctx_prec, pi,
                          DecFromNat(NatPow10(machin_scale(precision))))))
       IN  IF machin_scale(precision) < 0 THEN Raise("TypeError", 100)
           ELSE scaled(DecMul(ctx_prec, DecFromInt(4),
                           DecSub(ctx_prec, DecMul(ctx_prec, DecFromInt(4), loc.atan5),
                                  loc.atan.total)))

(***************************************************************************)
(* compute_pi_agm: the arithmetic-geometric mean iterated 18 times and     *)
(* then until pi falls by no more than epsilon.                            *)
(***************************************************************************)
\* iterate()
agm_iterate(prec, l) ==
    LET next(x0, x1, z) ==
            [epsilon |-> l.epsilon, a |-> x0, n |-> DecAdd(prec, l.n, l.n), g |-> x1,
             z |-> z, half |-> l.half, old_pi |-> l.pi,
             pi |-> IF DecIsZero(z) THEN l.pi
                    ELSE DecDiv(prec, DecMul(prec, x0, x0), z),
             i |-> l.i + 1, zero_z |-> DecIsZero(z)]
        squared(x0, x1, var) ==
            next(x0, x1, DecSub(prec, l.z, DecMul(prec, DecMul(prec, var, var), l.n)))
        means(x0, x1) == squared(x0, x1, DecSub(prec, x0, l.a))
    IN  means(DecMul(prec, DecAdd(prec, l.a, l.g), l.half),
              DecSqrt(prec, DecMul(prec, l.a, l.g)))

\* old_pi - pi > epsilon
agm_unsettled(prec, l) == DecCmp(DecSub(prec, l.old_pi, l.pi), l.epsilon) > 0

\* iterate() is called again: 18 times, and then while pi is unsettled,
\* unless its division by z raised
agm_goes_on(prec, l) ==
    IF ~entered(l) THEN TRUE
    ELSE IF l.zero_z THEN FALSE
    ELSE IF l.i < 18 THEN TRUE
    ELSE agm_unsettled(prec, l)

compute_pi_agm_iterate ==
    /\ pc = "compute_pi_agm"
    /\ agm_goes_on(ctx_prec, loc)
    /\ loc' = agm_iterate(ctx_prec,
                  IF entered(loc) THEN loc ELSE agm_locals(ctx_prec, precision))
    /\ UNCHANGED <<sysv, ctxv, pc, entry, callv, outv, art, cli, at_entry, testv>>

\* the characters compute_pi_agm keeps
agm_keep(p) == p + 2

compute_pi_agm_return ==
    /\ pc = "compute_pi_agm"
    /\ ~agm_goes_on(ctx_prec, loc)
    /\ IF loc.zero_z THEN Raise("DivisionByZero", 128)
       ELSE Return(SliceTo(DecStr(loc.pi), agm_keep(precision)))

\* compute_pi(precision, formula), called from the idle interpreter
compute_pi(name, p) ==
    /\ pc = "idle"
    /\ entry' = "compute_pi"
    /\ at_entry' = [max_str_digits |-> max_str_digits, ctx_prec |-> ctx_prec]
    /\ Call("compute_pi", NoCli, "compute_pi", get_formula(name), p, max_str_digits)
    /\ art' = NoArt
    /\ UNCHANGED testv

\* asciipi.compute_pi(precision), called from the idle interpreter
asciipi_compute_pi(p) ==
    /\ pc = "idle"
    /\ entry' = "asciipi.compute_pi"
    /\ at_entry' = [max_str_digits |-> max_str_digits, ctx_prec |-> ctx_prec]
    /\ Call("asciipi.compute_pi", NoCli, "asciipi.compute_pi", "asciipi.compute_pi", p,
            max_str_digits)
    /\ art' = NoArt
    /\ UNCHANGED testv

(***************************************************************************)
(* pi_ascii_art, of piday2023 and of asciipi.  The image, opened, resized  *)
(* and converted to two tones, is its width and its pixels in row-major    *)
(* order, each 0 or 255.                                                   *)
(***************************************************************************)
\* need_digit(pixel): piday2023 inks a dark pixel unless inverted, asciipi a
\* light one unless inverted
need_digit(renderer, pixel, inverted) ==
    IF renderer = "pi_ascii_art"
    THEN IF (pixel # 0 /\ inverted) \/ ~(pixel # 0 \/ inverted) THEN 1 ELSE 0
    ELSE IF (pixel # 0 /\ ~inverted) \/ (pixel = 0 /\ inverted) THEN 1 ELSE 0

\* sum(map(need_digit, pixels)), taken over the pixels lo..hi
RECURSIVE sum_need_digit(_, _, _, _, _)
sum_need_digit(renderer, pixels, inverted, lo, hi) ==
    IF lo > hi THEN 0
    ELSE IF lo = hi THEN need_digit(renderer, pixels[lo], inverted)
    ELSE LET mid == (lo + hi) \div 2
         IN  sum_need_digit(renderer, pixels, inverted, lo, mid)
             + sum_need_digit(renderer, pixels, inverted, mid + 1, hi)

num_digits_ignoring_polarity(renderer, pixels, inverted) ==
    sum_need_digit(renderer, pixels, FALSE, 1, Len(pixels))

num_digits(renderer, pixels, inverted) ==
    sum_need_digit(renderer, pixels, inverted, 1, Len(pixels))

\* pi_ascii_art up to its call of compute_pi: the ceiling is raised to
\* num_digits + 1 if it is below, which sys rejects below its threshold
\* the renderer, which has counted n pixels to fill and has a for its
\* locals, raises the ceiling where n + 1 is above it and computes n digits
render_digits(e, c, renderer, n, a, name) ==
    LET raise == n + 1 > max_str_digits
        ceiling == IF raise THEN n + 1 ELSE max_str_digits
        called == IF renderer = "pi_ascii_art" THEN get_formula(name)
                  ELSE "asciipi.compute_pi"
    IN  /\ art' = [a EXCEPT !.renderer = renderer, !.num_digits = n]
        /\ IF raise /\ ~set_int_max_str_digits_ok(n + 1)
           THEN /\ Finish(e, c, "ValueError",
                          IF renderer = "pi_ascii_art" THEN 208 ELSE 54, <<>>)
                /\ caller' = renderer
                /\ formula' = called
                /\ precision' = n
                /\ loc' = <<>>
                /\ UNCHANGED <<sysv, ctxv>>
           ELSE Call(e, c, renderer, called, n, ceiling)

render(e, c, renderer, image, inverted, name) ==
    render_digits(e, c, renderer, num_digits(renderer, image.pixels, inverted),
                  [NoArt EXCEPT !.width = image.width, !.pixels = image.pixels,
                                !.inverted = inverted],
                  name)

\* line.strip() is not empty
not_blank(row) == \E i \in 1..Len(row) : row[i] # " "

\* row.rstrip()
rstrip(row) ==
    LET inked == {i \in 1..Len(row) : row[i] # " "}
    IN  IF inked = {} THEN <<>>
        ELSE SubSeq(row, 1, CHOOSE i \in inked : \A j \in inked : j <= i)

\* one pass of the loop over the pixels; asciipi strips a row as it ends
walk(a) ==
    LET pixel == a.pixels[a.pos + 1]
        ink == need_digit(a.renderer, pixel, a.inverted) = 1
        row == Append(a.line, IF ink THEN a.pi_str[a.pi_index + 1] ELSE " ")
        full == a.num_chars + 1 = a.width
    IN  [a EXCEPT !.pos = @ + 1,
                  !.pi_index = IF ink THEN @ + 1 ELSE @,
                  !.reads = IF ink THEN Append(@, a.pi_index) ELSE @,
                  !.num_chars = IF full THEN 0 ELSE @ + 1,
                  !.line = IF full THEN <<>> ELSE row,
                  !.lines = IF ~full THEN @
                            ELSE Append(@, IF a.renderer = "pi_ascii_art" THEN row
                                           ELSE rstrip(row))]

\* pi_str[pi_index] is past the end of pi_str
walk_past_end(a) ==
    /\ need_digit(a.renderer, a.pixels[a.pos + 1], a.inverted) = 1
    /\ a.pi_index >= Len(a.pi_str)

pi_ascii_art_walk ==
    /\ pc \in {"pi_ascii_art", "asciipi.pi_ascii_art"}
    /\ art.pos < Len(art.pixels)
    /\ IF walk_past_end(art)
       THEN /\ Finish(entry, cli, "IndexError", IF pc = "pi_ascii_art" THEN 215 ELSE 61, <<>>)
            /\ UNCHANGED art
       ELSE /\ art' = walk(art)
            /\ UNCHANGED <<pc, outv, cli>>
    /\ UNCHANGED <<sysv, ctxv, entry, callv, loc, at_entry, testv>>

\* the rows pi_ascii_art returns: piday2023 leaves out the blank ones
text_of(a) ==
    IF a.renderer = "pi_ascii_art" THEN SelectSeq(a.lines, not_blank) ELSE a.lines

pi_ascii_art_return ==
    /\ pc \in {"pi_ascii_art", "asciipi.pi_ascii_art"}
    /\ art.pos >= Len(art.pixels)
    /\ art' = [art EXCEPT !.text = text_of(art)]
    /\ Finish(entry, cli, "ok", 0, text_of(art))
    /\ UNCHANGED <<sysv, ctxv, entry, callv, loc, at_entry, testv>>

\* pi_ascii_art(..., inverted, formula) of piday2023 on an image
pi_ascii_art(image, inverted, name) ==
    /\ pc = "idle"
    /\ entry' = "pi_ascii_art"
    /\ at_entry' = [max_str_digits |-> max_str_digits, ctx_prec |-> ctx_prec]
    /\ render("pi_ascii_art", NoCli, "pi_ascii_art", image, inverted, name)
    /\ UNCHANGED testv

\* pi_ascii_art(width, inverted) of asciipi on its image at that width
asciipi_pi_ascii_art(image, inverted) ==
    /\ pc = "idle"
    /\ entry' = "asciipi.pi_ascii_art"
    /\ at_entry' = [max_str_digits |-> max_str_digits, ctx_prec |-> ctx_prec]
    /\ render("asciipi.pi_ascii_art", NoCli, "asciipi.pi_ascii_art", image, inverted, "None")
    /\ UNCHANGED testv

(***************************************************************************)
(* main: the options parsed, a formula tested or pi printed, an exception  *)
(* of either handed to print_exception, and 0 returned.  The formulas'     *)
(* tests run them at 10 to 10000 digits; the options of the model name a   *)
(* formula to test only where none goes by the name.                       *)
(***************************************************************************)
main(opts) ==
    LET c == [NoCli EXCEPT !.opts = opts, !.exit_code = 1]
    IN  /\ pc = "idle"
        /\ entry' = "main"
        /\ at_entry' = [max_str_digits |-> max_str_digits, ctx_prec |-> ctx_prec]
        /\ UNCHANGED testv
        /\ IF get_formula(IF opts.test_formula # "None" THEN opts.test_formula
                          ELSE opts.formula) = ""
           THEN /\ Finish("main", c, "KeyError", 56, <<>>)
                /\ caller' = IF opts.test_formula # "None" THEN "main" ELSE "print_pi"
                /\ formula' = "none"
                /\ precision' = 0
                /\ loc' = <<>>
                /\ art' = NoArt
                /\ UNCHANGED <<sysv, ctxv>>
           ELSE IF opts.raw
           THEN /\ Call("main", c, "print_pi", get_formula("None"), opts.width,
                        max_str_digits)
                /\ art' = NoArt
           ELSE IF ~opts.image_found
           THEN /\ Finish("main", c, "FileNotFoundError", 200, <<>>)
                /\ caller' = "print_pi"
                /\ formula' = get_formula(opts.formula)
                /\ precision' = 0
                /\ loc' = <<>>
                /\ art' = NoArt
                /\ UNCHANGED <<sysv, ctxv>>
           ELSE render("main", c, "pi_ascii_art", opts.source_image, opts.inverted,
                       opts.formula)

\* the caller has the value or the exception of the call, and the
\* interpreter is idle again: what outlives the call is the process state
Idle ==
    /\ pc = "done"
    /\ pc' = "idle"
    /\ entry' = "none"
    /\ caller' = "none"
    /\ formula' = "none"
    /\ precision' = 0
    /\ loc' = <<>>
    /\ outcome' = "none"
    /\ raised' = 0
    /\ result' = <<>>
    /\ art' = NoArt
    /\ cli' = NoCli
    /\ at_entry' = [max_str_digits |-> max_str_digits, ctx_prec |-> ctx_prec]
    /\ UNCHANGED <<sysv, ctxv, testv>>

\* the precisions compute_pi is called with
MinPrecision == 0 - 2

MaxPrecision == 6

FormulaNames == {"bbp", "machin", "agm"}

Init ==
    /\ max_str_digits = DEFAULT_MAX_STR_DIGITS
    /\ _last_precision = None
    /\ ctx_prec = DEFAULT_CONTEXT_PREC
    /\ ctx_stack = <<>>
    /\ pc = "idle"
    /\ entry = "none"
    /\ caller = "none"
    /\ formula = "none"
    /\ precision = 0
    /\ loc = <<>>
    /\ outcome = "none"
    /\ raised = 0
    /\ result = <<>>
    /\ art = NoArt
    /\ cli = NoCli
    /\ at_entry = [max_str_digits |-> DEFAULT_MAX_STR_DIGITS, ctx_prec |-> DEFAULT_CONTEXT_PREC]
    /\ kept = <<>>
    /\ todo = <<>>
    /\ results = <<>>

\* the images: every two-tone image up to MaxWidth by MaxHeight, and the
\* 4 by 2 image whose dark pixels are [[1,0,1,0],[0,1,0,1]]
MaxWidth == 2

MaxHeight == 2

ExampleImage == [width |-> 4, pixels |-> <<0, 255, 0, 255, 255, 0, 255, 0>>]

Images ==
    {ExampleImage} \cup
    UNION {{[width |-> w, pixels |-> Tup(px)] : px \in [1..(w * h) -> {0, 255}]} :
           w \in 1..MaxWidth, h \in 1..MaxHeight}

\* the options main parses: the image is as wide as --width asks
Options ==
    {[test_formula |-> t, formula |-> f, raw |-> r, width |-> image.width,
      source_image |-> image, image_found |-> found, inverted |-> inverted] :
        t \in {"None", "nosuch"}, f \in FormulaNames \cup {"None", "nosuch"},
        r \in BOOLEAN, found \in BOOLEAN, inverted \in BOOLEAN,
        image \in {i \in Images : Len(i.pixels) = i.width}}

Main == \E opts \in Options : main(opts)

Render ==
    \E image \in Images, inverted \in BOOLEAN, name \in FormulaNames :
        pi_ascii_art(image, inverted, name)

AsciipiCompute == \E p \in MinPrecision..MaxPrecision : asciipi_compute_pi(p)

AsciipiRender ==
    \E image \in Images, inverted \in BOOLEAN : asciipi_pi_ascii_art(image, inverted)

Compute == \E name \in FormulaNames, p \in MinPrecision..MaxPrecision : compute_pi(name, p)

Next ==
    \/ Compute
    \/ compute_pi_bbp_iterate
    \/ compute_pi_bbp_return
    \/ decimal_atan2_iterate
    \/ decimal_atan2_return
    \/ compute_pi_machin_return
    \/ compute_pi_agm_iterate
    \/ compute_pi_agm_return
    \/ AsciipiCompute
    \/ asciipi_compute_pi_iterate
    \/ asciipi_compute_pi_return
    \/ Render
    \/ AsciipiRender
    \/ pi_ascii_art_walk
    \/ pi_ascii_art_return
    \/ Main
    \/ Idle

Spec == Init /\ [][Next]_vars

(***************************************************************************)
(* test_formulas: each formula in turn computes pi at each precision of    *)
(* test_formula, here PrefixLow and PrefixHigh for its 10 to 10000, and    *)
(* the values are kept to be compared.                                     *)
(***************************************************************************)
PrefixLow == 10

PrefixHigh == 79

formulas == <<"agm", "bbp", "machin">>

test_precisions == <<PrefixLow, PrefixHigh>>

\* the calls of compute_pi that test_formulas makes, in order
test_calls ==
    [i \in 1..(Len(formulas) * Len(test_precisions)) |->
        [formula |-> formulas[((i - 1) \div Len(test_precisions)) + 1],
         precision |-> test_precisions[((i - 1) % Len(test_precisions)) + 1]]]

\* pi = compute_pi(precision, formula)
test_formula ==
    /\ pc = "idle"
    /\ todo # <<>>
    /\ entry' = "test_formulas"
    /\ at_entry' = [max_str_digits |-> max_str_digits, ctx_prec |-> ctx_prec]
    /\ Call("test_formulas", NoCli, "test_formula", get_formula(Head(todo).formula),
            Head(todo).precision, max_str_digits)
    /\ art' = NoArt
    /\ todo' = Tail(todo)
    /\ UNCHANGED <<kept, results>>

\* test_formula has pi, and goes on to the next precision or formula
test_formula_next ==
    /\ pc = "done"
    /\ entry = "test_formulas"
    /\ results' = Append(results, [formula |-> formula, precision |-> precision,
                                   outcome |-> outcome, pi |-> result])
    /\ pc' = "idle"
    /\ UNCHANGED <<sysv, ctxv, entry, callv, loc, outv, art, cli, at_entry, kept, todo>>

InitPrefix ==
    /\ max_str_digits = DEFAULT_MAX_STR_DIGITS
    /\ _last_precision = None
    /\ ctx_prec = DEFAULT_CONTEXT_PREC
    /\ ctx_stack = <<>>
    /\ pc = "idle"
    /\ entry = "none"
    /\ caller = "none"
    /\ formula = "none"
    /\ precision = 0
    /\ loc = <<>>
    /\ outcome = "none"
    /\ raised = 0
    /\ result = <<>>
    /\ art = NoArt
    /\ cli = NoCli
    /\ at_entry = [max_str_digits |-> DEFAULT_MAX_STR_DIGITS, ctx_prec |-> DEFAULT_CONTEXT_PREC]
    /\ kept = <<>>
    /\ todo = test_calls
    /\ results = <<>>

NextPrefix ==
    \/ test_formula
    \/ compute_pi_bbp_iterate
    \/ compute_pi_bbp_return
    \/ decimal_atan2_iterate
    \/ decimal_atan2_return
    \/ compute_pi_machin_return
    \/ compute_pi_agm_iterate
    \/ compute_pi_agm_return
    \/ test_formula_next

SpecPrefix == InitPrefix /\ [][NextPrefix]_vars

(***************************************************************************)
(* The ceiling at work: calls at precisions where a ceiling is accepted,   *)
(* in any order in one process.  At these precisions the digits are        *)
(* counted and not valued: what the ceiling decides is whether an int of   *)
(* so many digits converts, and the value of the digits is the             *)
(* arithmetic's, which reads neither the ceiling nor the record.           *)
(***************************************************************************)
CeilingPrecisions == {0, 1, 319, 320, 700, 2150, 5000}

\* the pixels to fill of the images rendered
CeilingDigits == {639, 700, 4300, 5000}

\* the digits of pi_int as str() converts it: pi scaled by 10^(p+4) in
\* compute_pi_bbp, by 10^(p+2) in compute_pi_machin, by 10^p in asciipi
pi_int_digits(name, p) ==
    IF name = "compute_pi_bbp" THEN p + 5
    ELSE IF name = "compute_pi_machin" THEN p + 3
    ELSE p + 1

\* "3." and p digits after it, counted
pi_str_counted(p) == <<"3", ".", p>>

\* pi_str = str(pi_int) and the return of compute_pi_bbp
compute_pi_bbp_str ==
    /\ pc = first_loop("compute_pi_bbp")
    /\ IF int_to_str_ok(pi_int_digits(formula, precision), max_str_digits)
       THEN Return(pi_str_counted(precision))
       ELSE Raise("ValueError", 84)

\* pi_str = str(pi_int)[:precision + 1] and the return of compute_pi_machin
compute_pi_machin_str ==
    /\ pc = first_loop("compute_pi_machin")
    /\ IF int_to_str_ok(pi_int_digits(formula, precision), max_str_digits)
       THEN Return(pi_str_counted(precision))
       ELSE Raise("ValueError", 101)

\* str(pi)[:precision+2] of compute_pi_agm, where pi is a Decimal
compute_pi_agm_str ==
    /\ pc = first_loop("compute_pi_agm")
    /\ Return(pi_str_counted(precision))

\* pi_str = str(pi_int) and the return of asciipi.compute_pi
asciipi_compute_pi_str ==
    /\ pc = first_loop("asciipi.compute_pi")
    /\ IF int_to_str_ok(pi_int_digits(formula, precision), max_str_digits)
       THEN Return(pi_str_counted(precision))
       ELSE Raise("ValueError", 29)

\* pi_ascii_art of either module on an image with n pixels to fill, the
\* pixels themselves left out
pi_ascii_art_digits(renderer, n, name) ==
    /\ pc = "idle"
    /\ entry' = renderer
    /\ at_entry' = [max_str_digits |-> max_str_digits, ctx_prec |-> ctx_prec]
    /\ render_digits(renderer, NoCli, renderer, n, NoArt, name)
    /\ UNCHANGED testv

\* the caller of compute_pi keeps what the call made, to compare a later
\* call with
Keep ==
    /\ pc = "done"
    /\ entry = "compute_pi"
    /\ kept = <<>>
    /\ kept' = <<[formula |-> formula, precision |-> precision, outcome |-> outcome,
                  result |-> result, max_str_digits |-> max_str_digits,
                  _last_precision |-> _last_precision]>>
    /\ UNCHANGED <<sysv, ctxv, pc, entry, callv, loc, outv, art, cli, at_entry, todo, results>>

CeilingCompute == \E name \in FormulaNames, p \in CeilingPrecisions : compute_pi(name, p)

CeilingRender ==
    \E renderer \in {"pi_ascii_art", "asciipi.pi_ascii_art"}, n \in CeilingDigits,
       name \in FormulaNames :
        pi_ascii_art_digits(renderer, n, name)

NextCeiling ==
    \/ CeilingCompute
    \/ CeilingRender
    \/ compute_pi_bbp_str
    \/ compute_pi_machin_str
    \/ compute_pi_agm_str
    \/ asciipi_compute_pi_str
    \/ pi_ascii_art_return
    \/ Keep
    \/ Idle

SpecCeiling == Init /\ [][NextCeiling]_vars

(***************************************************************************)
(* What a finished call shows.                                             *)
(***************************************************************************)
Formulas == {"compute_pi_bbp", "compute_pi_machin", "compute_pi_agm"}

Renderers == {"pi_ascii_art", "asciipi.pi_ascii_art"}

Loops == Formulas \cup {"decimal_atan2", "asciipi.compute_pi"}

Digits == {DigitChars[i] : i \in 1..10}

\* the call ended before its formula was entered
formula_not_entered == outcome # "ok" /\ raised \in {56, 200, 208, 54}

\* InkCount: the pixels need_digit takes for ink
InkCount(a) ==
    Cardinality({i \in 1..Len(a.pixels) :
                    need_digit(a.renderer, a.pixels[i], a.inverted) = 1})

\* a row holds a digit
has_digit(row) == \E i \in 1..Len(row) : row[i] \in Digits

\* C1: the k-th ink pixel receives the k-th digit after the decimal point,
\* which is the character at index k + 1 of the digit string, so that neither
\* the "3" nor the "." is placed; the 4 by 2 example renders, untrimmed, as
\* the rows "1 1 " and " 4 5"
C1_OnlyDigitsAfterPoint ==
    /\ \A k \in 1..Len(art.reads) : art.reads[k] = k + 1
    /\ (/\ pc = "done"
        /\ outcome = "ok"
        /\ art.renderer = "pi_ascii_art"
        /\ art.width = ExampleImage.width
        /\ art.pixels = ExampleImage.pixels
        /\ ~art.inverted)
       => art.lines = << <<"1", " ", "1", " ">>, <<" ", "4", " ", "5">> >>

\* C2: called with a precision of 1 or more, each formula returns "3", "."
\* and precision digits, precision + 2 characters in all, and raises nothing,
\* the assertion of compute_pi_machin included
C2_ExactLength ==
    (/\ pc = "done"
     /\ formula \in Formulas
     /\ precision >= 1
     /\ ~formula_not_entered)
    => /\ outcome = "ok"
       /\ LET pi_str == IF caller \in Renderers THEN art.pi_str ELSE result
          IN  /\ Len(pi_str) = precision + 2
              /\ pi_str[1] = "3"
              /\ pi_str[2] = "."
              /\ \A i \in 3..Len(pi_str) : pi_str[i] \in Digits

C2_Witness ==
    /\ pc = "done"
    /\ formula = "compute_pi_machin"
    /\ precision = MaxPrecision
    /\ outcome = "ok"
    /\ Len(result) = MaxPrecision + 2

\* C5: when a call returns, with a value or with an exception, the ceiling
\* on the digits of a converted integer is what it was before the call
C5_CeilingRestored == pc = "done" => max_str_digits = at_entry.max_str_digits

\* C6: a call raises the ValueError of the ceiling only where an integer is
\* converted to a string (lines 84 and 101, and 29 of asciipi); the other
\* ValueError is that of a context precision below 1 (lines 65, and 12)
C6_OnlyConversionFails ==
    (pc = "done" /\ outcome = "ValueError" /\ raised \notin {65, 12})
    => raised \in {84, 101, 29}

\* C7: a formula runs at precision + precision_padding, and when it has
\* returned or raised the context has the precision it had before the call
C7_PrecisionScoped ==
    /\ pc \in Loops => ctx_prec = precision + precision_padding(formula)
    /\ pc \notin Loops => ctx_prec = at_entry.ctx_prec /\ ctx_stack = <<>>

C7_Witness ==
    /\ pc = "done"
    /\ formula = "compute_pi_machin"
    /\ outcome = "AssertionError"
    /\ ctx_prec = DEFAULT_CONTEXT_PREC
    /\ at_entry.ctx_prec = DEFAULT_CONTEXT_PREC

\* C8: main returns 0 when the run succeeds and another code when it raised
C8_ExitCode ==
    (pc = "done" /\ entry = "main")
    => /\ outcome = "ok" => cli.returned = 0
       /\ outcome # "ok" => cli.returned # 0 /\ cli.stderr # <<>>

\* C9: pi_ascii_art of piday2023 ends a row every width pixels, and returns
\* the rows that hold a digit, whole and in order, and no other row
C9_RowsWithDigits ==
    (pc = "done" /\ outcome = "ok" /\ art.renderer = "pi_ascii_art")
    => /\ Len(art.lines) * art.width = Len(art.pixels)
       /\ \A i \in 1..Len(art.lines) : Len(art.lines[i]) = art.width
       /\ art.text = SelectSeq(art.lines, has_digit)

\* C10: the renderer asks the formula for as many digits as there are ink
\* pixels, reads the string at 0, 1, 2, ... in turn, never past its end,
\* and has read as many characters as there are ink pixels when it returns
C10_ReadsInOrder ==
    /\ (art.renderer # "none" /\ formula # "none") => precision = InkCount(art)
    /\ \A k \in 1..Len(art.reads) :
           art.reads[k] = k - 1 /\ art.reads[k] < Len(art.pi_str)
    /\ Len(art.reads) = art.pi_index
    /\ pc = "done" => ~(outcome = "IndexError" /\ raised \in {215, 61})
    /\ (pc = "done" /\ outcome = "ok" /\ art.renderer # "none")
       => art.pi_index = InkCount(art)

C10_Witness ==
    /\ pc = "done"
    /\ outcome = "ok"
    /\ art.renderer = "asciipi.pi_ascii_art"
    /\ art.inverted
    /\ art.pixels = ExampleImage.pixels
    /\ art.reads = <<0, 1, 2, 3>>

\* C3: of two values computed, by whichever formulas, at precisions p <= q
\* with p >= 1, the first p + 1 characters are the same
C3_MonotonicPrefix ==
    \A i, j \in 1..Len(results) :
        (results[i].precision >= 1 /\ results[i].precision <= results[j].precision)
        => SliceTo(results[i].pi, results[i].precision + 1)
           = SliceTo(results[j].pi, results[i].precision + 1)

\* C4: a call of compute_pi has the outcome of an earlier call with the same
\* formula and precision, the same string or an exception as the earlier
\* one, whatever was called between the two
C4_SameOutcome ==
    (pc = "done" /\ entry = "compute_pi" /\ kept # <<>>
     /\ kept[1].formula = formula /\ kept[1].precision = precision)
    => (kept[1].outcome = outcome /\ kept[1].result = result)

\* compute_pi_bbp at 700 made its string under the ceiling 1400 it set, and
\* makes it again under the ceiling a call at 5000 left
C4_Witness ==
    /\ pc = "done" /\ entry = "compute_pi" /\ kept # <<>>
    /\ formula = "compute_pi_bbp" /\ precision = 700
    /\ kept[1].formula = formula /\ kept[1].precision = precision
    /\ kept[1].max_str_digits = 1400 /\ kept[1]._last_precision = 700
    /\ max_str_digits = 10000 /\ _last_precision = 5000
    /\ outcome = "ok" /\ result = pi_str_counted(700) /\ kept[1].outcome = "ok"
====
